---- MODULE Spec2Model ----
(***************************************************************************)
(* Model of crates/nu_plugin_plotters/src/value/chart_2d.rs: the Chart2d   *)
(* descriptor, its lazy axis-range resolution (the xy_range! macro), and   *)
(* the FromValue / CustomValue conversions of Chart2d and Range.           *)
(*                                                                         *)
(* f64 numbers are modelled by the integers 0..MaxNum; Option<T> by a      *)
(* sequence of length 0 (None) or 1 (Some); Result<T, ShellError> by a     *)
(* record with an `ok` flag.                                               *)
(***************************************************************************)
EXTENDS Integers, Sequences, FiniteSets, TLC

VARIABLES chart, value, ret, pc

vars == <<chart, value, ret, pc>>

(* ----------------------------- bounds ---------------------------------- *)
MaxNum == 1
MaxSeries == 2
MaxLen == 3

Num == 0..MaxNum

(* ------------------------- Option and Result --------------------------- *)
None == <<>>
Some(x) == <<x>>
IsSome(o) == Len(o) = 1
Unwrap(o) == o[1]

Ok(x) == [ok |-> TRUE, val |-> x]
Err(e) == [ok |-> FALSE, err |-> e]

(* ------------------------------- Range --------------------------------- *)
Range(lo, hi) == [min |-> lo, max |-> hi]

\* every Range over the modelled numbers (min <= max is not enforced)
Ranges == {Range(a, b) : a \in Num, b \in Num}
OptRanges == {None} \cup {Some(r) : r \in Ranges}

\* extents a series can report for one axis: none, or a proper interval
Extents == {None} \cup {Some(r) : r \in {q \in Ranges : q.min < q.max}}

\* Series2d, seen through its two accessors x_range() and y_range()
Series2dSet == [x_range : Extents, y_range : Extents]

Series2d_x_range(s) == s.x_range
Series2d_y_range(s) == s.y_range

(* ------------------------------ Chart2d -------------------------------- *)
Captions == {None, Some("caption")}

Default ==
    [series |-> <<>>,
     width |-> 600,
     height |-> 400,
     background |-> None,
     caption |-> None,
     margin |-> <<5, 5, 5, 5>>,
     label_area |-> <<0, 0, 35, 35>>,
     x_range |-> None,
     y_range |-> None]

\* .filter_map(|s| s.$fn_name()): the reported ranges, in series order
RECURSIVE filter_map(_)
filter_map(reports) ==
    IF reports = <<>> THEN <<>>
    ELSE IF IsSome(Head(reports))
         THEN <<Unwrap(Head(reports))>> \o filter_map(Tail(reports))
         ELSE filter_map(Tail(reports))

\* the body of the for loop: widen (min, max) by one reported range
widen(acc, s) ==
    [min |-> IF s.min < acc.min THEN s.min ELSE acc.min,
     max |-> IF s.max > acc.max THEN s.max ELSE acc.max]

RECURSIVE for_loop(_, _)
for_loop(acc, rs) ==
    IF rs = <<>> THEN acc ELSE for_loop(widen(acc, Head(rs)), Tail(rs))

\* a resolution in which the series can widen the explicit range
xy_range_merged(explicit, reports) ==
    IF filter_map(reports) = <<>> THEN explicit
    ELSE IF IsSome(explicit)
         THEN Some(for_loop(Unwrap(explicit), filter_map(reports)))
         ELSE Some(for_loop(Head(filter_map(reports)), filter_map(reports)))

\* the xy_range! macro body: `explicit` is self.$fn_name, `reports` is
\* s.$fn_name() for each series of self.series, in order
xy_range(explicit, reports) ==
    IF IsSome(explicit) THEN explicit
    ELSE IF reports = <<>> THEN None              \* self.series.first()?
    ELSE IF ~IsSome(reports[1]) THEN None         \* first.$fn_name()?
    ELSE Some(for_loop(Unwrap(reports[1]), filter_map(reports)))

x_reports(self) == [i \in 1..Len(self.series) |-> Series2d_x_range(self.series[i])]
y_reports(self) == [i \in 1..Len(self.series) |-> Series2d_y_range(self.series[i])]

Chart2d_x_range(self) == xy_range(self.x_range, x_reports(self))
Chart2d_y_range(self) == xy_range(self.y_range, y_reports(self))

(* --------------------- the chart under edit: Spec ---------------------- *)
NoValue == [kind |-> "none"]
NoRet == [ok |-> TRUE, val |-> "unit"]

Init ==
    /\ chart = Default
    /\ value = NoValue
    /\ ret = NoRet
    /\ pc = "new"

\* chart.series.push(s)
PushSeries ==
    /\ Len(chart.series) < MaxSeries
    /\ \E s \in Series2dSet :
          chart' = [chart EXCEPT !.series = Append(@, s)]
    /\ ret' = NoRet
    /\ pc' = "edit"
    /\ UNCHANGED value

\* chart.series.remove(i)
RemoveSeries ==
    /\ \E i \in 1..Len(chart.series) :
          chart' = [chart EXCEPT !.series =
                       [j \in 1..(Len(@) - 1) |-> IF j < i THEN @[j] ELSE @[j + 1]]]
    /\ ret' = NoRet
    /\ pc' = "edit"
    /\ UNCHANGED value

\* chart.x_range = Some(r)
SetXRange ==
    /\ ~IsSome(chart.x_range)
    /\ \E r \in Ranges : chart' = [chart EXCEPT !.x_range = Some(r)]
    /\ ret' = NoRet
    /\ pc' = "edit"
    /\ UNCHANGED value

\* chart.x_range = None
ClearXRange ==
    /\ IsSome(chart.x_range)
    /\ chart' = [chart EXCEPT !.x_range = None]
    /\ ret' = NoRet
    /\ pc' = "edit"
    /\ UNCHANGED value

\* chart.y_range = Some(r)
SetYRange ==
    /\ ~IsSome(chart.y_range)
    /\ \E r \in Ranges : chart' = [chart EXCEPT !.y_range = Some(r)]
    /\ ret' = NoRet
    /\ pc' = "edit"
    /\ UNCHANGED value

\* chart.y_range = None
ClearYRange ==
    /\ IsSome(chart.y_range)
    /\ chart' = [chart EXCEPT !.y_range = None]
    /\ ret' = NoRet
    /\ pc' = "edit"
    /\ UNCHANGED value

\* a query that memoises the inferred range in the descriptor
QueryXRangeMemo ==
    /\ ret' = Ok(Chart2d_x_range(chart))
    /\ pc' = "x_range"
    /\ chart' = [chart EXCEPT !.x_range = Chart2d_x_range(chart)]
    /\ UNCHANGED value

\* let r = chart.x_range();   (&self: the descriptor is only read)
QueryXRange ==
    /\ ret' = Ok(Chart2d_x_range(chart))
    /\ pc' = "x_range"
    /\ UNCHANGED <<chart, value>>

\* let r = chart.y_range();
QueryYRange ==
    /\ ret' = Ok(Chart2d_y_range(chart))
    /\ pc' = "y_range"
    /\ UNCHANGED <<chart, value>>

Next ==
    \/ PushSeries
    \/ RemoveSeries
    \/ SetXRange
    \/ ClearXRange
    \/ SetYRange
    \/ ClearYRange
    \/ QueryXRange
    \/ QueryYRange

Spec == Init /\ [][Next]_vars

(* ------------------------ range resolution claims ---------------------- *)
Queried == pc \in {"x_range", "y_range"}

\* the explicit field and the series reports of the axis that was queried
explicit_of(c) == IF pc = "x_range" THEN c.x_range ELSE c.y_range
reports_of(c) == IF pc = "x_range" THEN x_reports(c) ELSE y_reports(c)

Reporting(reports) == {i \in DOMAIN reports : IsSome(reports[i])}
MinOf(S) == CHOOSE m \in S : \A n \in S : m <= n
MaxOf(S) == CHOOSE m \in S : \A n \in S : m >= n
Hull(reports) ==
    Range(MinOf({reports[i][1].min : i \in Reporting(reports)}),
          MaxOf({reports[i][1].max : i \in Reporting(reports)}))

\* C1: without an explicit range, the resolved range equals the one resolved
\* for the same chart with every non-reporting series removed, so a silent
\* series is skipped wherever it sits in the series order.
C1_SkipsSilentSeries ==
    (Queried /\ ~IsSome(explicit_of(chart)))
        => ret.val = xy_range(None, SelectSeq(reports_of(chart), IsSome))

\* C2: an explicit range is returned exactly as stored, whatever the series
\* list contains.
C2_ExplicitWins ==
    (Queried /\ IsSome(explicit_of(chart))) => ret = Ok(explicit_of(chart))

\* C2 witness: a query answered with the explicit range although a series
\* reports a different extent for that axis.
C2_Witness ==
    /\ Queried
    /\ IsSome(explicit_of(chart))
    /\ \E i \in Reporting(reports_of(chart)) : reports_of(chart)[i] # explicit_of(chart)
    /\ ret = Ok(explicit_of(chart))

\* C3: without an explicit range and with at least one reporting series, the
\* resolved range is the smallest min and the largest max over the reporting
\* series.
C3_FoldIsHull ==
    (Queried /\ ~IsSome(explicit_of(chart)) /\ Reporting(reports_of(chart)) # {})
        => ret.val = Some(Hull(reports_of(chart)))

\* C4: without an explicit range, the result is absent if and only if no
\* series reports a range for the axis.
C4_AbsentIffNoReport ==
    (Queried /\ ~IsSome(explicit_of(chart)))
        => (ret.val = None <=> Reporting(reports_of(chart)) = {})

\* what a query answers, stated from the descriptor alone
Resolved(explicit, reports) ==
    IF IsSome(explicit) THEN explicit
    ELSE IF Reporting(reports) = {} \/ 1 \notin Reporting(reports) THEN None
    ELSE Some(Hull(reports))

\* C10: a query's result is a function of the descriptor at the time of the
\* query, and the query leaves every field of the descriptor unchanged.
C10_QueryIsPure ==
    [][/\ pc' = "x_range" =>
            (chart' = chart /\ ret' = Ok(Resolved(chart.x_range, x_reports(chart))))
       /\ pc' = "y_range" =>
            (chart' = chart /\ ret' = Ok(Resolved(chart.y_range, y_reports(chart))))]_vars

\* C10 witness: an inferred range was returned and the explicit field of the
\* queried axis is still absent.
C10_Witness ==
    /\ pc = "x_range"
    /\ Len(chart.series) = MaxSeries
    /\ ~IsSome(chart.x_range)
    /\ ret.ok /\ IsSome(ret.val)

(* ------------------------------- Value --------------------------------- *)
\* nu_protocol::Span
Spans == {[start |-> 0, end |-> 4], [start |-> 7, end |-> 9]}
ElemSpan == [start |-> 1, end |-> 2]

\* nu_protocol::Value, the variants this file meets. Each variant's payload
\* field carries its own name (val of Value::Range is `range`, of
\* Value::Record `record`, and so on) so that variants never share a shape.
Value_Int(n, span) == [kind |-> "Int", val |-> n, internal_span |-> span]
Value_Float(n, span) == [kind |-> "Float", val |-> n, internal_span |-> span]
Value_String(t, span) == [kind |-> "String", text |-> t, internal_span |-> span]
Value_Nothing(span) == [kind |-> "Nothing", internal_span |-> span]
Value_Range(r, span) == [kind |-> "Range", range |-> r, internal_span |-> span]
Value_List(vs, span) == [kind |-> "List", vals |-> vs, internal_span |-> span]
Value_Record(rec, span) == [kind |-> "Record", record |-> rec, internal_span |-> span]
Value_Custom(payload, span) == [kind |-> "Custom", custom |-> payload, internal_span |-> span]

\* Value::span()
Value_span(v) == v.internal_span

\* std::ops::Bound
Included(x) == <<"Included", x>>
Excluded(x) == <<"Excluded", x>>
Unbounded == <<"Unbounded">>

\* Value::get_type().to_string(), for the variants that reach the last match arm
get_type(v) ==
    CASE v.kind = "Int" -> "int"
      [] v.kind = "Float" -> "float"
      [] v.kind = "String" -> "string"
      [] v.kind = "Nothing" -> "nothing"
      [] v.kind = "Custom" -> v.custom.type_name

\* ShellError::CantConvert { to_type, from_type, span, help }
CantConvert(to, from, span, help) ==
    [error |-> "CantConvert", to_type |-> to, from_type |-> from,
     span |-> span, help |-> help]

\* an error returned by a callee and passed on by `?`, not built in this file
Propagated(callee) == [error |-> "propagated", callee |-> callee]

(* ------------------------- Range::from_value --------------------------- *)
\* Range::expected_type().to_string(): Type::List(Box::new(Type::Number))
Range_expected_type == "list<number>"

\* FloatRange::from(*val): an int range becomes a float range, bounds kept
FloatRange_from(val) == [start |-> val.start, end |-> val.end]

\* f64::from_value: a float, or an int converted with `as f64`
f64_from_value(v) ==
    IF v.kind \in {"Float", "Int"} THEN Ok(v.val)
    ELSE Err(Propagated("f64::from_value"))

\* <[f64; 2]>::from_value(v): every element is decoded, then the length
\* must be exactly two
Array2_from_value(v) ==
    IF \E i \in DOMAIN v.vals : ~f64_from_value(v.vals[i]).ok
    THEN Err(Propagated("<[f64; 2]>::from_value"))
    ELSE IF Len(v.vals) # 2
    THEN Err(Propagated("<[f64; 2]>::from_value"))
    ELSE Ok(<<f64_from_value(v.vals[1]).val, f64_from_value(v.vals[2]).val>>)

\* RangeDTO::from_value(v), derived: fields `min` and `max`, each an f64
RangeDTO_from_value(v) ==
    IF ~({"min", "max"} \subseteq DOMAIN v.record)
    THEN Err(Propagated("RangeDTO::from_value"))
    ELSE IF ~f64_from_value(v.record["min"]).ok \/ ~f64_from_value(v.record["max"]).ok
    THEN Err(Propagated("RangeDTO::from_value"))
    ELSE Ok([min |-> f64_from_value(v.record["min"]).val,
             max |-> f64_from_value(v.record["max"]).val])

\* a decode that orders the two bounds
Range_from_value_ordered(v) ==
    CASE v.kind = "Range" ->
            LET range == FloatRange_from(v.range)
                min == range.start
            IN  IF range.end = Unbounded
                THEN Err(CantConvert(Range_expected_type, "range", v.internal_span,
                                     Some("Try a bounded range instead.")))
                ELSE IF min <= range.end[2] THEN Ok(Range(min, range.end[2]))
                     ELSE Ok(Range(range.end[2], min))
      [] v.kind = "List" ->
            LET r == Array2_from_value(v)
            IN  IF r.ok THEN Ok(Range(r.val[1], r.val[2])) ELSE r
      [] v.kind = "Record" ->
            LET r == RangeDTO_from_value(v)
            IN  IF r.ok THEN Ok(Range(r.val.min, r.val.max)) ELSE r
      [] OTHER ->
            Err(CantConvert(Range_expected_type, get_type(v), Value_span(v), None))

\* a decode whose unbounded-range error carries no hint
Range_from_value_nohelp(v) ==
    CASE v.kind = "Range" ->
            LET range == FloatRange_from(v.range)
                min == range.start
            IN  IF range.end = Unbounded
                THEN Err(CantConvert(Range_expected_type, "range", v.internal_span, None))
                ELSE Ok(Range(min, range.end[2]))
      [] v.kind = "List" ->
            LET r == Array2_from_value(v)
            IN  IF r.ok THEN Ok(Range(r.val[1], r.val[2])) ELSE r
      [] v.kind = "Record" ->
            LET r == RangeDTO_from_value(v)
            IN  IF r.ok THEN Ok(Range(r.val.min, r.val.max)) ELSE r
      [] OTHER ->
            Err(CantConvert(Range_expected_type, get_type(v), Value_span(v), None))

\* a decode that reads a lone number as a zero-width range
Range_from_value_lenient(v) ==
    CASE v.kind = "Range" ->
            LET range == FloatRange_from(v.range)
                min == range.start
            IN  IF range.end = Unbounded
                THEN Err(CantConvert(Range_expected_type, "range", v.internal_span,
                                     Some("Try a bounded range instead.")))
                ELSE Ok(Range(min, range.end[2]))
      [] v.kind = "List" ->
            LET r == Array2_from_value(v)
            IN  IF r.ok THEN Ok(Range(r.val[1], r.val[2])) ELSE r
      [] v.kind = "Record" ->
            LET r == RangeDTO_from_value(v)
            IN  IF r.ok THEN Ok(Range(r.val.min, r.val.max)) ELSE r
      [] v.kind \in {"Int", "Float"} -> Ok(Range(v.val, v.val))
      [] OTHER ->
            Err(CantConvert(Range_expected_type, get_type(v), Value_span(v), None))

\* impl FromValue for Range
Range_from_value(v) ==
    CASE v.kind = "Range" ->
            LET range == FloatRange_from(v.range)
                min == range.start
            IN  IF range.end = Unbounded
                THEN Err(CantConvert(Range_expected_type, "range", v.internal_span,
                                     Some("Try a bounded range instead.")))
                ELSE Ok(Range(min, range.end[2]))
      [] v.kind = "List" ->
            LET r == Array2_from_value(v)
            IN  IF r.ok THEN Ok(Range(r.val[1], r.val[2])) ELSE r
      [] v.kind = "Record" ->
            LET r == RangeDTO_from_value(v)
            IN  IF r.ok THEN Ok(Range(r.val.min, r.val.max)) ELSE r
      [] OTHER ->
            Err(CantConvert(Range_expected_type, get_type(v), Value_span(v), None))

(* ------------------- decoding a host value: SpecRange ------------------ *)
\* values the host can put inside a list or a record
Elems ==
    {Value_Int(n, ElemSpan) : n \in Num} \cup {Value_Float(n, ElemSpan) : n \in Num}
        \cup {Value_String("a", ElemSpan)}

Bounds == {Included(n) : n \in Num} \cup {Excluded(n) : n \in Num} \cup {Unbounded}
HostRanges == [kind : {"IntRange", "FloatRange"}, start : Num, end : Bounds]

Lists == UNION {[1..n -> Elems] : n \in 0..MaxLen}
Records == UNION {[D -> Elems] : D \in SUBSET {"min", "max", "step"}}

ForeignPayloads ==
    {[type_id |-> "Series2d", type_name |-> "plotters::series-2d"],
     [type_id |-> "Foreign", type_name |-> "plotters::chart-2d"],
     [type_id |-> "Foreign", type_name |-> "other::chart"]}

Scalars(span) ==
    {Value_Int(n, span) : n \in Num} \cup {Value_Float(n, span) : n \in Num}
        \cup {Value_String("1..5", span), Value_Nothing(span)}

HostValues ==
    UNION {{Value_Range(r, span) : r \in HostRanges}
              \cup {Value_List(l, span) : l \in Lists}
              \cup {Value_Record(f, span) : f \in Records}
              \cup {Value_Custom(p, span) : p \in ForeignPayloads}
              \cup Scalars(span) : span \in Spans}

InitRange ==
    /\ chart = Default
    /\ value \in HostValues
    /\ ret = NoRet
    /\ pc = "host"

\* let r = Range::from_value(value);
DecodeRange ==
    /\ pc = "host"
    /\ ret' = Range_from_value(value)
    /\ pc' = "Range::from_value"
    /\ UNCHANGED <<chart, value>>

NextRange == DecodeRange

SpecRange == InitRange /\ [][NextRange]_vars

(* --------------------------- Range decode claims ----------------------- *)
DecodedRange == pc = "Range::from_value"
IsNumber(v) == v.kind \in {"Int", "Float"}

\* C5: a bounded host range a..b or a..<b, the list [a, b] and the record
\* {min: a, max: b} all decode to Range{min: a, max: b}, whatever the order
\* of a and b.
C5_AcceptedShapes ==
    DecodedRange =>
        /\ (value.kind = "Range" /\ value.range.end # Unbounded)
              => ret = Ok(Range(value.range.start, value.range.end[2]))
        /\ (value.kind = "List" /\ Len(value.vals) = 2
                /\ IsNumber(value.vals[1]) /\ IsNumber(value.vals[2]))
              => ret = Ok(Range(value.vals[1].val, value.vals[2].val))
        /\ (value.kind = "Record" /\ DOMAIN value.record = {"min", "max"}
                /\ IsNumber(value.record["min"]) /\ IsNumber(value.record["max"]))
              => ret = Ok(Range(value.record["min"].val, value.record["max"].val))

\* C5 witness: an exclusive host range whose start exceeds its end has been
\* decoded, bounds kept in place.
C5_Witness ==
    /\ DecodedRange
    /\ value.kind = "Range"
    /\ value.range.end # Unbounded
    /\ value.range.end[1] = "Excluded"
    /\ value.range.start > value.range.end[2]
    /\ ret = Ok(Range(value.range.start, value.range.end[2]))

\* an error value built by Range::from_value itself
RaisedHere(r) == ~r.ok /\ r.err.error = "CantConvert"

\* C6: a host range with an unbounded end fails with CantConvert carrying the
\* hint and the range's span, and no other failure raised by the decode
\* carries help text.
C6_UnboundedRejected ==
    DecodedRange =>
        /\ (value.kind = "Range" /\ value.range.end = Unbounded)
              => ret = Err(CantConvert("list<number>", "range", value.internal_span,
                                       Some("Try a bounded range instead.")))
        /\ (RaisedHere(ret) /\ IsSome(ret.err.help))
              => (value.kind = "Range" /\ value.range.end = Unbounded)

\* C6 witness: an unbounded host range has been rejected with the hint.
C6_Witness ==
    /\ DecodedRange
    /\ value.kind = "Range"
    /\ value.range.end = Unbounded
    /\ RaisedHere(ret)
    /\ ret.err.help = Some("Try a bounded range instead.")

\* the inputs Range::from_value accepts
Accepted(v) ==
    \/ v.kind = "Range" /\ v.range.end # Unbounded
    \/ v.kind = "List" /\ Len(v.vals) = 2 /\ \A i \in 1..2 : IsNumber(v.vals[i])
    \/ v.kind = "Record" /\ {"min", "max"} \subseteq DOMAIN v.record
          /\ IsNumber(v.record["min"]) /\ IsNumber(v.record["max"])

\* C9: a value that is neither range, list nor record fails with CantConvert
\* (expected list<number>, the actual type, the value's span, no help), and
\* nothing outside the accepted shapes decodes to a Range.
C9_ShapeMismatch ==
    DecodedRange =>
        /\ value.kind \notin {"Range", "List", "Record"}
              => ret = Err(CantConvert("list<number>", get_type(value),
                                       value.internal_span, None))
        /\ ret.ok => Accepted(value)

\* C9 witness: a string has been rejected with the shape-mismatch error.
C9_Witness ==
    /\ DecodedRange
    /\ value.kind = "String"
    /\ ret = Err(CantConvert("list<number>", "string", value.internal_span, None))

(* ----------------------- Chart2d as a host value ----------------------- *)
\* Chart2d::ty().to_string(): Type::Custom("plotters::chart-2d")
Chart2d_ty == "plotters::chart-2d"

\* CustomValue::type_name
Chart2d_type_name(self) == Chart2d_ty

\* a clone_value that boxes a fresh default descriptor
Chart2d_clone_value_default(self, span) ==
    Value_Custom([type_id |-> "Chart2d", type_name |-> Chart2d_type_name(self),
                  data |-> Default], span)

\* CustomValue::clone_value: Value::custom(Box::new(self.clone()), span).
\* type_id is the Rust type of the boxed payload, which downcast_ref tests.
Chart2d_clone_value(self, span) ==
    Value_Custom([type_id |-> "Chart2d", type_name |-> Chart2d_type_name(self),
                  data |-> self], span)

\* #[derive(IntoValue)] for Range: a record {min, max} of floats
Range_into_value(r, span) ==
    Value_Record([min |-> Value_Float(r.min, span), max |-> Value_Float(r.max, span)], span)

\* Option<Range>::into_value: nothing, or the range's record
OptRange_into_value(o, span) ==
    IF IsSome(o) THEN Range_into_value(Unwrap(o), span) ELSE Value_Nothing(span)

\* Series2d::into_value, seen through the two extents the series reports
Series2d_into_value(s, span) ==
    Value_Record([x_range |-> OptRange_into_value(s.x_range, span),
                  y_range |-> OptRange_into_value(s.y_range, span)], span)

\* [u32; 4]::into_value
Array4_into_value(a, span) == Value_List([i \in 1..4 |-> Value_Int(a[i], span)], span)

\* #[derive(IntoValue)] for Chart2d: a record with one field per struct field
Chart2d_into_value(self, span) ==
    Value_Record(
        [series |-> Value_List([i \in 1..Len(self.series) |->
                                   Series2d_into_value(self.series[i], span)], span),
         width |-> Value_Int(self.width, span),
         height |-> Value_Int(self.height, span),
         background |-> Value_Nothing(span),
         caption |-> IF IsSome(self.caption)
                     THEN Value_String(Unwrap(self.caption), span)
                     ELSE Value_Nothing(span),
         margin |-> Array4_into_value(self.margin, span),
         label_area |-> Array4_into_value(self.label_area, span),
         x_range |-> OptRange_into_value(self.x_range, span),
         y_range |-> OptRange_into_value(self.y_range, span)], span)

\* CustomValue::to_base_value: Ok(self.clone().into_value(span))
Chart2d_to_base_value(self, span) == Ok(Chart2d_into_value(self, span))

\* Value::into_custom_value: the boxed payload of a custom value, else an error
Value_into_custom_value(v) ==
    IF v.kind = "Custom" THEN Ok(v.custom)
    ELSE Err(Propagated("Value::into_custom_value"))

\* a decode that goes by the handle's type name instead of its payload type
Chart2d_from_value_by_name(v) ==
    LET span == Value_span(v)
        r == Value_into_custom_value(v)
    IN  IF ~r.ok THEN r
        ELSE IF r.val.type_name = Chart2d_ty
        THEN Ok(IF r.val.type_id = "Chart2d" THEN r.val.data ELSE Default)
        ELSE Err(CantConvert(Chart2d_ty, r.val.type_name, span, None))

\* impl FromValue for Chart2d
Chart2d_from_value(v) ==
    LET span == Value_span(v)
        r == Value_into_custom_value(v)
    IN  IF ~r.ok THEN r
        ELSE IF r.val.type_id = "Chart2d"             \* downcast_ref::<Self>()
        THEN Ok(r.val.data)
        ELSE Err(CantConvert(Chart2d_ty, r.val.type_name, span, None))

(* ---------------- a descriptor crossing the host: SpecChart ------------ *)
MaxInputSeries == 1

InputSeries == UNION {[1..n -> Series2dSet] : n \in 0..MaxInputSeries}

ChartInputs ==
    {[Default EXCEPT !.series = ss, !.x_range = xr, !.y_range = yr, !.caption = c] :
        ss \in InputSeries, xr \in OptRanges, yr \in OptRanges, c \in Captions}

HostSpan == [start |-> 7, end |-> 9]

\* what the host can hand to Chart2d::from_value besides this chart's encodings
HostHandles ==
    {Value_Custom(p, HostSpan) : p \in ForeignPayloads}
        \cup {Value_Int(0, HostSpan), Value_Nothing(HostSpan)}

InitChart ==
    /\ chart \in ChartInputs
    /\ value = NoValue
    /\ ret = NoRet
    /\ pc = "new"

\* value = chart.clone_value(span)
CloneValue ==
    /\ pc = "new"
    /\ \E span \in Spans : value' = Chart2d_clone_value(chart, span)
    /\ pc' = "clone_value"
    /\ UNCHANGED <<chart, ret>>

\* value = chart.to_base_value(span)?
ToBaseValue ==
    /\ pc = "new"
    /\ value' = Chart2d_to_base_value(chart, HostSpan).val
    /\ ret' = NoRet
    /\ pc' = "to_base_value"
    /\ UNCHANGED chart

\* the host passes some other value
HostHandle ==
    /\ pc = "new"
    /\ value' \in HostHandles
    /\ pc' = "host"
    /\ UNCHANGED <<chart, ret>>

\* let r = Chart2d::from_value(value);
DecodeChart ==
    /\ pc \in {"clone_value", "to_base_value", "host"}
    /\ ret' = Chart2d_from_value(value)
    /\ pc' = "Chart2d::from_value"
    /\ UNCHANGED <<chart, value>>

NextChart ==
    \/ CloneValue
    \/ ToBaseValue
    \/ HostHandle
    \/ DecodeChart

SpecChart == InitChart /\ [][NextChart]_vars

(* --------------------------- Chart decode claims ----------------------- *)
DecodedChart == pc = "Chart2d::from_value"

\* C7: a custom handle whose payload is not a Chart2d is rejected with
\* CantConvert naming plotters::chart-2d, the handle's type name and the
\* input's span; the decode succeeds only on a Chart2d payload, which it
\* returns.
C7_ForeignRejected ==
    DecodedChart =>
        /\ (value.kind = "Custom" /\ value.custom.type_id # "Chart2d")
              => ret = Err(CantConvert("plotters::chart-2d", value.custom.type_name,
                                       value.internal_span, None))
        /\ ret.ok => /\ value.kind = "Custom"
                     /\ value.custom.type_id = "Chart2d"
                     /\ ret.val = value.custom.data

\* C7 witness: a foreign handle that goes by the chart's own type name has
\* been rejected.
C7_Witness ==
    /\ DecodedChart
    /\ value.kind = "Custom"
    /\ value.custom.type_id = "Foreign"
    /\ value.custom.type_name = "plotters::chart-2d"
    /\ ~ret.ok

IsCloneOf(v, c) == \E span \in Spans : v = Chart2d_clone_value(c, span)
IsRecordOf(v, c) == v = Chart2d_into_value(c, HostSpan)

\* C8 as stated: decoding either encoding of a descriptor (the custom handle
\* of clone_value, or the record of into_value / to_base_value) gives the
\* descriptor back.
C8_RoundTripAnyEncoding ==
    (DecodedChart /\ (IsCloneOf(value, chart) \/ IsRecordOf(value, chart)))
        => ret = Ok(chart)

\* C8 amended: decoding the custom handle of clone_value gives the descriptor
\* back field for field, and decoding the record of into_value /
\* to_base_value fails.
C8_RoundTripHandle ==
    DecodedChart =>
        /\ IsCloneOf(value, chart) => ret = Ok(chart)
        /\ IsRecordOf(value, chart) => ~ret.ok

\* C8 witness: a descriptor with a series, a caption and an explicit range
\* came back from its handle.
C8_Witness ==
    /\ DecodedChart
    /\ IsCloneOf(value, chart)
    /\ chart.series # <<>>
    /\ IsSome(chart.caption)
    /\ IsSome(chart.x_range)
    /\ ret = Ok(chart)

====
